---- MODULE Spec2Model ----
(***************************************************************************)
(* A model of src/app.py: the download handler (download_video), the       *)
(* subtitle synthesis it calls (_generate_subtitles, _format_srt_time),    *)
(* the retrieval handler (serve_file) and the label composition of         *)
(* _format_entry.                                                          *)
(*                                                                         *)
(* Strings that the code splits, strips or concatenates are sequences of   *)
(* one-character strings, so that basename, splitext, endswith, strip and  *)
(* join are computed character by character as Python computes them.       *)
(* The file system is a set of directories and a set of regular files,     *)
(* each a sequence of path components below the application directory.     *)
(***************************************************************************)
EXTENDS Integers, Sequences, FiniteSets, TLC

VARIABLES fs, req, served, fmt, srt

vars == <<fs, req, served, fmt, srt>>

(***************************************************************************)
(* Bounds of the model.                                                    *)
(***************************************************************************)
\* number of download requests handled concurrently
MaxReqs == 2

Reqs == 1..MaxReqs

(***************************************************************************)
(* Python string helpers, on sequences of characters.                      *)
(***************************************************************************)
\* str.strip(): leading and trailing white space removed
RECURSIVE LStrip(_)
LStrip(s) == IF s # <<>> /\ Head(s) = " " THEN LStrip(Tail(s)) ELSE s

RECURSIVE RStrip(_)
RStrip(s) == IF s # <<>> /\ s[Len(s)] = " " THEN RStrip(SubSeq(s, 1, Len(s) - 1)) ELSE s

Strip(s) == RStrip(LStrip(s))

\* str.endswith(suf)
EndsWith(s, suf) ==
    /\ Len(s) >= Len(suf)
    /\ SubSeq(s, Len(s) - Len(suf) + 1, Len(s)) = suf

\* index of the last occurrence of character c in s, 0 when there is none
LastIndex(s, c) ==
    LET I == {i \in 1..Len(s) : s[i] = c}
    IN  IF I = {} THEN 0 ELSE CHOOSE i \in I : \A j \in I : j <= i

\* os.path.basename (posixpath): what follows the last "/"
Basename(p) == SubSeq(p, LastIndex(p, "/") + 1, Len(p))

\* os.path.join(a, b) (posixpath)
PathJoin(a, b) ==
    IF b # <<>> /\ Head(b) = "/" THEN b
    ELSE IF a = <<>> \/ a[Len(a)] = "/" THEN a \o b
    ELSE a \o <<"/">> \o b

\* os.path.splitext (posixpath): the extension starts at the last dot of the
\* last component, unless only dots precede it in that component
SplitExt(p) ==
    LET sep == LastIndex(p, "/")
        dot == LastIndex(p, ".")
        lead == \A i \in (sep + 1)..(dot - 1) : p[i] = "."
    IN  IF dot > sep /\ ~lead
        THEN <<SubSeq(p, 1, dot - 1), SubSeq(p, dot, Len(p))>>
        ELSE <<p, <<>>>>

\* str.split(c)
RECURSIVE SplitOn(_, _)
SplitOn(s, c) ==
    LET I == {i \in 1..Len(s) : s[i] = c}
    IN  IF I = {} THEN <<s>>
        ELSE LET i == CHOOSE k \in I : \A j \in I : k <= j
             IN  <<SubSeq(s, 1, i - 1)>> \o SplitOn(SubSeq(s, i + 1, Len(s)), c)

\* the components of a path string
Components(p) == SplitOn(p, "/")

(***************************************************************************)
(* The file system.  A location is a sequence of components below the      *)
(* application directory (the directory of app.py), which is <<>>.         *)
(***************************************************************************)
NoEnt == <<<<"/">>>>

DOT == <<".">>
DOTDOT == <<".", ".">>

\* path resolution as the kernel does it, component by component: every
\* component is looked up in a directory that exists
RECURSIVE Walk(_, _, _)
Walk(f, at, cs) ==
    IF cs = <<>> THEN at
    ELSE IF at \notin f.dirs THEN NoEnt
    ELSE LET c == Head(cs)
         IN  IF c = <<>> \/ c = DOT THEN Walk(f, at, Tail(cs))
             ELSE IF c = DOTDOT
                  THEN Walk(f, IF at = <<>> THEN at ELSE SubSeq(at, 1, Len(at) - 1), Tail(cs))
             ELSE Walk(f, Append(at, c), Tail(cs))

Resolve(f, p) == Walk(f, <<>>, Components(p))

\* os.path.isfile
IsFile(f, p) == Resolve(f, p) \in f.files

IsPrefix(a, b) == Len(a) <= Len(b) /\ SubSeq(b, 1, Len(a)) = a

\* os.makedirs(p, exist_ok=True)
MakeDirs(f, p) ==
    LET cs == Components(p)
    IN  [f EXCEPT !.dirs = @ \cup {SubSeq(cs, 1, n) : n \in 1..Len(cs)}]

\* a process creates (or truncates) the regular file p
WriteFile(f, p) ==
    LET loc == Resolve(f, p)
    IN  IF loc = NoEnt \/ loc \in f.dirs
           \/ SubSeq(loc, 1, Len(loc) - 1) \notin f.dirs
        THEN f
        ELSE [f EXCEPT !.files = @ \cup {loc}]

\* shutil.rmtree(p, ignore_errors=True)
RmTree(f, p) ==
    LET loc == Resolve(f, p)
    IN  IF loc \notin f.dirs THEN f
        ELSE [dirs |-> {d \in f.dirs : ~IsPrefix(loc, d)},
              files |-> {x \in f.files : ~IsPrefix(loc, x)}]

\* os.listdir(p): the names directly inside directory p
ListDir(f, p) ==
    LET loc == Resolve(f, p)
    IN  {x[Len(x)] : x \in {y \in f.files \cup f.dirs :
                              Len(y) = Len(loc) + 1 /\ IsPrefix(loc, y)}}

(***************************************************************************)
(* Constants of app.py.                                                    *)
(***************************************************************************)
\* DOWNLOAD_DIR: the directory "downloads" beside app.py (name shortened)
DOWNLOAD_DIR == <<"d">>
\* the module file itself, beside the download directory (name shortened)
APP_PY == <<"a", ".", "p", "y">>

\* the file system once the module is loaded: os.makedirs(DOWNLOAD_DIR)
InitFs == MakeDirs([dirs |-> {<<>>}, files |-> {<<APP_PY>>}], DOWNLOAD_DIR)

OUT_TEMPLATE == <<"%", "(", "t", "i", "t", "l", "e", ")", ".", "8", "0", "s", ".", "%", "(", "e", "x", "t", ")", "s">>
BEST == <<"b", "e", "s", "t">>
PLUS_BESTAUDIO_BEST == <<"+", "b", "e", "s", "t", "a", "u", "d", "i", "o", "/", "b", "e", "s", "t", "/">>
GENERATED_SRT == <<"g", "e", "n", "e", "r", "a", "t", "e", "d", ".", "s", "r", "t">>
SUB_MP4 == <<"_", "s", "u", "b", ".", "m", "p", "4">>
EXT_SRT == <<".", "s", "r", "t">>
EXT_VTT == <<".", "v", "t", "t">>
EXT_ASS == <<".", "a", "s", "s">>

\* the test of the list comprehension that looks for the downloaded file
IsSubtitleName(f) == EndsWith(f, EXT_SRT) \/ EndsWith(f, EXT_VTT) \/ EndsWith(f, EXT_ASS)

(***************************************************************************)
(* Task ids.  uuid.uuid4().hex is modelled as a draw among the ids no      *)
(* request has drawn yet (a hex string, shortened to one digit).           *)
(***************************************************************************)
HexDigits == <<"1", "2", "3", "4", "5", "6", "7", "8", "9">>
TaskIds == {<<HexDigits[i]>> : i \in 1..MaxReqs}

NoVal == <<>>

UsedIds == {req[q].task_id : q \in {x \in Reqs : req[x].task_id # NoVal}}

Uuid4 == TaskIds \ UsedIds

(***************************************************************************)
(* Python dict helpers.                                                    *)
(***************************************************************************)
DictSet(d, k, v) == (k :> v) @@ d
DictGet(d, k, default) == IF k \in DOMAIN d THEN d[k] ELSE default

(***************************************************************************)
(* download_video: the engine configuration (ydl_opts).                    *)
(***************************************************************************)
BaseOpts(task_dir) ==
    [quiet |-> TRUE, no_warnings |-> TRUE,
     outtmpl |-> PathJoin(task_dir, OUT_TEMPLATE), noplaylist |-> TRUE]

\* if format_id: ... else: ...
FormatOpts(o, format_id) ==
    IF format_id # <<>>
    THEN DictSet(DictSet(o, "format", format_id \o PLUS_BESTAUDIO_BEST \o format_id),
                 "merge_output_format", "mp4")
    ELSE DictSet(o, "format", BEST)

\* faulty variant: the container is not forced when no format was chosen
EmbedOpts_nomerge(o, format_id, embed_subs) ==
    IF embed_subs
    THEN DictSet(o, "postprocessors",
                 DictGet(o, "postprocessors", <<>>) \o <<[key |-> "FFmpegEmbedSubtitle"]>>)
    ELSE o

\* if embed_subs: ...
EmbedOpts(o, format_id, embed_subs) ==
    IF embed_subs
    THEN LET o1 == DictSet(o, "postprocessors",
                      DictGet(o, "postprocessors", <<>>) \o <<[key |-> "FFmpegEmbedSubtitle"]>>)
         IN  IF format_id = <<>> THEN DictSet(o1, "merge_output_format", "mp4") ELSE o1
    ELSE o

\* if subtitle_lang: ...
SubtitleOpts(o, format_id, subtitle_lang, embed_subs) ==
    IF subtitle_lang # <<>>
    THEN EmbedOpts(DictSet(DictSet(DictSet(o, "writesubtitles", TRUE),
                                   "writeautomaticsub", TRUE),
                           "subtitleslangs", <<subtitle_lang>>),
                   format_id, embed_subs)
    ELSE o

BuildOpts(task_dir, format_id, subtitle_lang, embed_subs) ==
    SubtitleOpts(FormatOpts(BaseOpts(task_dir), format_id),
                 format_id, subtitle_lang, embed_subs)

(***************************************************************************)
(* The external capabilities, as far as the handler sees them.             *)
(***************************************************************************)
V_MP4 == <<"v", ".", "m", "p", "4">>
V_M4A == <<"v", ".", "m", "4", "a">>
V_SRT == <<"v", ".", "e", "n", ".", "s", "r", "t">>
V_PART == <<"v", ".", "p", "a", "r", "t">>

\* what a successful ydl.download may leave in the output directory: any of
\* the media files, and subtitle side-files when subtitles were requested
EngineOutputs(o, media) ==
    SUBSET (media \cup (IF "writesubtitles" \in DOMAIN o THEN {V_SRT} ELSE {}))

\* what a failing ydl.download may leave behind
EnginePartials == {{}, {V_PART}}

\* str(e) of the exception an external capability raises
Causes == {"e1", "e2"}

\* os.path.dirname (posixpath), for the directory of the output template
Dirname(p) == SubSeq(p, 1, LastIndex(p, "/") - 1)

RECURSIVE WriteAll(_, _, _)
WriteAll(f, dir, names) ==
    IF names = {} THEN f
    ELSE LET n == CHOOSE x \in names : TRUE
         IN  WriteAll(WriteFile(f, PathJoin(dir, n)), dir, names \ {n})

(***************************************************************************)
(* The state of one download request (one run of download_video).          *)
(***************************************************************************)
NoResp == [status |-> 0, body |-> [none |-> TRUE]]

IdleReq ==
    [pc |-> "idle", format_id |-> NoVal, subtitle_lang |-> NoVal,
     embed_subs |-> FALSE, generate_subs |-> FALSE, whisper_lang |-> NoVal,
     task_id |-> NoVal, task_dir |-> NoVal, ydl_opts |-> [none |-> TRUE],
     err |-> "", files |-> {}, video_file |-> NoVal, video_path |-> NoVal,
     resp |-> NoResp, log |-> <<>>]

\* jsonify(...), status
Response(status, body) == [status |-> status, body |-> body]

ErrorBody(msg, cause) == [error |-> [msg |-> msg, cause |-> cause]]

Finish(rq, resp, ev) ==
    [rq EXCEPT !.pc = "done", !.resp = resp, !.log = Append(@, ev)]

\* faulty variant: every task works in the download directory itself
TaskDir_shared(task_id) == DOWNLOAD_DIR

\* line 117
TaskDir(task_id) == PathJoin(DOWNLOAD_DIR, task_id)

\* lines 107-144: read the request, allocate the task, build ydl_opts
Start(r, raw) ==
    /\ req[r].pc = "idle"
    /\ LET url == Strip(raw.url)
           format_id == Strip(raw.format_id)
           subtitle_lang == Strip(raw.subtitle_lang)
           whisper_lang == Strip(raw.whisper_lang)
       IN  IF url = <<>>
           THEN /\ req' = [req EXCEPT ![r] =
                             Finish(@, Response(400, ErrorBody("url_required", "")), "reject")]
                /\ fs' = fs
           ELSE \E task_id \in Uuid4 :
                  LET task_dir == TaskDir(task_id)
                  IN  /\ fs' = MakeDirs(fs, task_dir)
                      /\ req' = [req EXCEPT ![r] =
                            [@ EXCEPT !.pc = "engine",
                                      !.format_id = format_id,
                                      !.subtitle_lang = subtitle_lang,
                                      !.embed_subs = raw.embed_subs,
                                      !.generate_subs = raw.generate_subs,
                                      !.whisper_lang = whisper_lang,
                                      !.task_id = task_id,
                                      !.task_dir = task_dir,
                                      !.ydl_opts = BuildOpts(task_dir, format_id,
                                                       subtitle_lang, raw.embed_subs),
                                      !.log = Append(@, "makedirs")]]
    /\ UNCHANGED <<served, fmt, srt>>

\* lines 147-148: ydl.download returns normally
EngineOk(r, names) ==
    /\ req[r].pc = "engine"
    /\ fs' = WriteAll(fs, Dirname(req[r].ydl_opts.outtmpl), names)
    /\ req' = [req EXCEPT ![r] = [@ EXCEPT !.pc = "locate", !.log = Append(@, "engine_ok")]]
    /\ UNCHANGED <<served, fmt, srt>>

\* lines 147-149: ydl.download raises DownloadError
EngineFail(r, names, e) ==
    /\ req[r].pc = "engine"
    /\ fs' = WriteAll(fs, Dirname(req[r].ydl_opts.outtmpl), names)
    /\ req' = [req EXCEPT ![r] = [@ EXCEPT !.pc = "dl_error", !.err = e,
                                            !.log = Append(@, "engine_raise")]]
    /\ UNCHANGED <<served, fmt, srt>>

\* faulty variant: the except clause forgets the cleanup
DownloadErrorCleanup_skip(f, task_dir) == f

\* line 150
DownloadErrorCleanup(f, task_dir) == RmTree(f, task_dir)

\* lines 149-151: the except clause
HandleDownloadError(r) ==
    /\ req[r].pc = "dl_error"
    /\ fs' = DownloadErrorCleanup(fs, req[r].task_dir)
    /\ req' = [req EXCEPT ![r] =
                 Finish(@, Response(400, ErrorBody("download_failed", req[r].err)), "rmtree")]
    /\ UNCHANGED <<served, fmt, srt>>

\* line 154: the candidates for the downloaded file
Candidates(f, task_dir) == {x \in ListDir(f, task_dir) : ~IsSubtitleName(x)}

\* line 155: if not files
NoArtifact(files) == files = {}

\* faulty variant: the missing-file branch forgets the cleanup
NoArtifactCleanup_skip(f, task_dir) == f

\* line 156
NoArtifactCleanup(f, task_dir) == RmTree(f, task_dir)

\* line 159: files[0]; os.listdir gives the names in arbitrary order
Primary(files) == files

\* line 163: where the handler goes once the file is found
AfterLocate(generate_subs) == IF generate_subs THEN "transcribe" ELSE "done"

\* lines 154-170 (without the synthesis): look for the downloaded file
Locate(r) ==
    /\ req[r].pc = "locate"
    /\ LET files == Candidates(fs, req[r].task_dir)
       IN  IF NoArtifact(files)
           THEN /\ fs' = NoArtifactCleanup(fs, req[r].task_dir)
                /\ req' = [req EXCEPT ![r] =
                      Finish(@, Response(500, ErrorBody("file_not_found", "")), "rmtree")]
           ELSE \E video_file \in Primary(files) :
                  LET rq == [req[r] EXCEPT
                                !.files = files,
                                !.video_file = video_file,
                                !.video_path = PathJoin(req[r].task_dir, video_file),
                                !.log = Append(@, "located")]
                  IN  /\ fs' = fs
                      /\ req' = [req EXCEPT ![r] =
                            IF AfterLocate(rq.generate_subs) = "done"
                            THEN Finish(rq, Response(200, [task_id |-> rq.task_id,
                                                           filename |-> rq.video_file]),
                                        "respond")
                            ELSE [rq EXCEPT !.pc = AfterLocate(rq.generate_subs)]]
    /\ UNCHANGED <<served, fmt, srt>>

(***************************************************************************)
(* _generate_subtitles, called from lines 164-168.                         *)
(***************************************************************************)
\* faulty variant: the handler falls back to the downloaded file and answers success
SubtitleFailure_fallback(rq) ==
    Finish(rq, Response(200, [task_id |-> rq.task_id, filename |-> rq.video_file]), "respond")

\* line 167-168: except Exception
SubtitleFailure(rq) ==
    Finish(rq, Response(500, ErrorBody("subtitle_failed", rq.err)), "caught")

\* an exception e leaves _generate_subtitles
Raise(rq, e, ev) == [rq EXCEPT !.err = e, !.log = Append(@, ev)]

\* lines 175-183: whisper.load_model and model.transcribe return
TranscribeOk(r) ==
    /\ req[r].pc = "transcribe"
    /\ req' = [req EXCEPT ![r] = [@ EXCEPT !.pc = "write_srt",
                                            !.log = Append(@, "transcribed")]]
    /\ UNCHANGED <<fs, served, fmt, srt>>

\* lines 175-183: the import, the model load or the transcription raises
TranscribeFail(r, e) ==
    /\ req[r].pc = "transcribe"
    /\ req' = [req EXCEPT ![r] = SubtitleFailure(Raise(@, e, "transcribe_raise"))]
    /\ UNCHANGED <<fs, served, fmt, srt>>

\* line 186
SrtPath(task_dir) == PathJoin(task_dir, GENERATED_SRT)

\* lines 186-192: the subtitle file is written
WriteSrtOk(r) ==
    /\ req[r].pc = "write_srt"
    /\ fs' = WriteFile(fs, SrtPath(req[r].task_dir))
    /\ req' = [req EXCEPT ![r] = [@ EXCEPT !.pc = "mux", !.log = Append(@, "srt_written")]]
    /\ UNCHANGED <<served, fmt, srt>>

\* lines 186-192: open or write raises; the file exists if open succeeded
WriteSrtFail(r, e, created) ==
    /\ req[r].pc = "write_srt"
    /\ fs' = IF created THEN WriteFile(fs, SrtPath(req[r].task_dir)) ELSE fs
    /\ req' = [req EXCEPT ![r] = SubtitleFailure(Raise(@, e, "write_raise"))]
    /\ UNCHANGED <<served, fmt, srt>>

\* faulty variant: the suffix is added to the whole path, extension included
OutputPath_keepext(video_path) == video_path \o SUB_MP4

\* lines 195-196
OutputPath(video_path) == SplitExt(video_path)[1] \o SUB_MP4

\* lines 197-208 and 166-170: ffmpeg exits 0, the handler answers
MuxOk(r) ==
    /\ req[r].pc = "mux"
    /\ LET output_path == OutputPath(req[r].video_path)
           rq == [req[r] EXCEPT !.video_path = output_path,
                                !.video_file = Basename(output_path),
                                !.log = Append(@, "muxed")]
       IN  /\ fs' = WriteFile(fs, output_path)
           /\ req' = [req EXCEPT ![r] =
                 Finish(rq, Response(200, [task_id |-> rq.task_id,
                                           filename |-> rq.video_file]), "respond")]
    /\ UNCHANGED <<served, fmt, srt>>

\* lines 197-206: ffmpeg exits non-zero (check=True raises); the output file
\* may have been created
MuxFail(r, e, created) ==
    /\ req[r].pc = "mux"
    /\ fs' = IF created THEN WriteFile(fs, OutputPath(req[r].video_path)) ELSE fs
    /\ req' = [req EXCEPT ![r] = SubtitleFailure(Raise(@, e, "mux_raise"))]
    /\ UNCHANGED <<served, fmt, srt>>

(***************************************************************************)
(* The requests the model sends.                                           *)
(***************************************************************************)
URL == <<"u">>
FMT_18 == <<"1", "8">>
LANG_EN == <<"e", "n">>
LANG_JA == <<"j", "a">>

\* every combination of the request's fields, with and without white space
AllInputs ==
    [url : {<<>>, <<" ">>, URL},
     format_id : {<<>>, <<" ">>, FMT_18, <<" ">> \o FMT_18},
     subtitle_lang : {<<>>, LANG_EN, LANG_EN \o <<" ">>},
     embed_subs : BOOLEAN,
     generate_subs : BOOLEAN,
     whisper_lang : {<<>>, LANG_JA}]

\* the requests of the concurrent runs: the fields the pipeline branches on
ConcInputs ==
    [url : {<<>>, URL}, format_id : {<<>>}, subtitle_lang : {<<>>},
     embed_subs : {FALSE}, generate_subs : BOOLEAN, whisper_lang : {<<>>}]

Idle == [kind |-> "idle"]

Init ==
    /\ fs = InitFs
    /\ req = [r \in Reqs |-> IdleReq]
    /\ served = Idle
    /\ fmt = Idle
    /\ srt = Idle

\* the steps of the requests R, sent with inputs I, when the engine can
\* produce the media files M and the capabilities fail with the causes C
Download(R, I, M, C) ==
    \E r \in R :
       \/ \E raw \in I : Start(r, raw)
       \/ \E names \in EngineOutputs(req[r].ydl_opts, M) : EngineOk(r, names)
       \/ \E names \in EnginePartials, e \in C : EngineFail(r, names, e)
       \/ HandleDownloadError(r)
       \/ Locate(r)
       \/ TranscribeOk(r)
       \/ \E e \in C : TranscribeFail(r, e)
       \/ WriteSrtOk(r)
       \/ \E e \in C, created \in BOOLEAN : WriteSrtFail(r, e, created)
       \/ MuxOk(r)
       \/ \E e \in C, created \in BOOLEAN : MuxFail(r, e, created)

Next == Download(Reqs, ConcInputs, {V_MP4}, {"e1"})

Spec == Init /\ [][Next]_vars

(***************************************************************************)
(* serve_file.                                                             *)
(***************************************************************************)
\* lines 224-226
ServePath(task_id, filename) ==
    PathJoin(PathJoin(DOWNLOAD_DIR, Basename(task_id)), Basename(filename))

\* lines 221-231
Serve(task_id, filename) ==
    /\ LET safe_filename == Basename(filename)
           filepath == ServePath(task_id, filename)
       IN  served' = IF ~IsFile(fs, filepath)
                     THEN [kind |-> "served", status |-> 404, task_id |-> task_id,
                           filename |-> filename, file |-> NoEnt,
                           download_name |-> NoVal]
                     ELSE [kind |-> "served", status |-> 200, task_id |-> task_id,
                           filename |-> filename, file |-> Resolve(fs, filepath),
                           download_name |-> safe_filename]
    /\ UNCHANGED <<fs, req, fmt, srt>>

\* the identifiers the model asks for: the task ids, an unknown id, the dot
\* names, and ids with a directory part
UNKNOWN_ID == <<"0">>
ServeIds ==
    TaskIds \cup {UNKNOWN_ID, DOT, DOTDOT}
            \cup {DOTDOT \o <<"/">> \o t : t \in TaskIds}
ServeNames ==
    {V_MP4, V_SRT, APP_PY, DOTDOT, DOTDOT \o <<"/">> \o APP_PY,
     DOTDOT \o <<"/">> \o V_MP4}

\* one request, every input, an engine that can leave two media files
NextSingle == Download({1}, AllInputs, {V_MP4, V_M4A}, Causes)

SpecSingle == Init /\ [][NextSingle]_vars

\* one request and retrievals at any moment of it
NextServe ==
    \/ Download({1}, ConcInputs, {V_MP4}, {"e1"})
    \/ \E task_id \in ServeIds, filename \in ServeNames : Serve(task_id, filename)

SpecServe == Init /\ [][NextServe]_vars

\* the engine configuration alone: requests are accepted and go no further
SelectInputs == {raw \in AllInputs : raw.url = URL /\ raw.whisper_lang = <<>>}

NextSelect == \E r \in Reqs, raw \in SelectInputs : Start(r, raw)

SpecSelect == Init /\ [][NextSelect]_vars

(***************************************************************************)
(* Properties of the download pipeline.                                    *)
(***************************************************************************)
Has(log, ev) == \E i \in DOMAIN log : log[i] = ev
Pos(log, ev) == CHOOSE i \in DOMAIN log : log[i] = ev

\* the workspace of task t, as a location of the file system
Workspace(t) == <<DOWNLOAD_DIR, t>>
WorkspaceExists(t) == Workspace(t) \in fs.dirs
WorkspaceGone(t) == \A x \in fs.dirs \cup fs.files : ~IsPrefix(Workspace(t), x)

Finished(r) == req[r].pc = "done"
Allocated(r) == req[r].task_id # NoVal
ReturnsTaskId(r) == "task_id" \in DOMAIN req[r].resp.body
ErrorOf(r) == req[r].resp.body.error

\* C1: once the engine has raised a download failure, no task_id is ever
\* returned, and when the request has ended its workspace is deleted and
\* the response is a client error carrying the engine's message.
C1_DownloadFailure ==
    \A r \in Reqs :
       Has(req[r].log, "engine_raise") =>
          /\ ~ReturnsTaskId(r)
          /\ Finished(r) =>
                /\ WorkspaceGone(req[r].task_id)
                /\ req[r].resp.status \in 400..499
                /\ "error" \in DOMAIN req[r].resp.body
                /\ ErrorOf(r) = [msg |-> "download_failed", cause |-> req[r].err]

C1_Witness ==
    \E r \in Reqs :
       /\ Finished(r)
       /\ Has(req[r].log, "engine_raise")
       /\ req[r].err = "e2"
       /\ req[r].resp.status = 400

\* C2: the download step goes on (to synthesis or to a success response)
\* only when exactly one file without a subtitle extension was found.
C2_ExactlyOneArtifact ==
    \A r \in Reqs :
       Has(req[r].log, "located") => Cardinality(req[r].files) = 1

\* C3 as stated: after a request has ended, its workspace exists if and
\* only if the request ended with a success response.
C3_WorkspaceIffSuccess ==
    \A r \in Reqs :
       (Finished(r) /\ Allocated(r)) =>
          (WorkspaceExists(req[r].task_id) <=> req[r].resp.status = 200)

\* C3 as amended: after a request has ended, its workspace is deleted when
\* it ended with the download failure or the missing-file failure, and is
\* still there, with the file that was found, when it ended with a success
\* response or with a subtitle generation failure.
C3_CleanupOnDownloadFailures ==
    \A r \in Reqs :
       (Finished(r) /\ Allocated(r)) =>
          IF req[r].resp.status = 200 \/ ErrorOf(r).msg = "subtitle_failed"
          THEN /\ WorkspaceExists(req[r].task_id)
               /\ \E f \in req[r].files :
                     Workspace(req[r].task_id) \o <<f>> \in fs.files
          ELSE /\ ErrorOf(r).msg \in {"download_failed", "file_not_found"}
               /\ WorkspaceGone(req[r].task_id)

C3_Witness ==
    \E r \in Reqs :
       /\ Finished(r)
       /\ Has(req[r].log, "engine_ok")
       /\ req[r].resp.status = 500
       /\ ErrorOf(r).msg = "file_not_found"
       /\ WorkspaceGone(req[r].task_id)

\* the name before its extension, as the claim words it ("original stem")
StemOf(f) ==
    LET D == {i \in 2..Len(f) : f[i] = "." /\ \E j \in 1..(i - 1) : f[j] # "."}
    IN  IF D = {} THEN f
        ELSE SubSeq(f, 1, (CHOOSE i \in D : \A j \in D : j <= i) - 1)

SynthesisEvents ==
    {"transcribed", "transcribe_raise", "srt_written", "write_raise", "muxed", "mux_raise"}

\* C6: synthesis never starts before the engine has returned and the file
\* has been found; a success response with generate_subs comes after the
\* muxing and names the muxed file, stem + "_sub.mp4"; without
\* generate_subs it names the file that was found, and nothing is synthesised.
C6_StepsOrdered ==
    \A r \in Reqs :
       LET rq == req[r]
           log == rq.log
       IN  /\ rq.pc \in {"transcribe", "write_srt", "mux"} =>
                 /\ rq.generate_subs
                 /\ Has(log, "engine_ok") /\ Has(log, "located")
                 /\ Pos(log, "engine_ok") < Pos(log, "located")
                 /\ Workspace(rq.task_id) \o <<rq.video_file>> \in fs.files
           /\ \A i \in DOMAIN log :
                 log[i] \in SynthesisEvents =>
                    /\ rq.generate_subs
                    /\ Has(log, "engine_ok") /\ Has(log, "located")
                    /\ Pos(log, "engine_ok") < Pos(log, "located")
                    /\ Pos(log, "located") < i
           /\ rq.resp.status = 200 =>
                 /\ Workspace(rq.task_id) \o <<rq.resp.body.filename>> \in fs.files
                 /\ IF rq.generate_subs
                    THEN /\ Has(log, "transcribed") /\ Has(log, "srt_written")
                         /\ Has(log, "muxed")
                         /\ Pos(log, "transcribed") < Pos(log, "srt_written")
                         /\ Pos(log, "srt_written") < Pos(log, "muxed")
                         /\ Pos(log, "muxed") < Pos(log, "respond")
                         /\ \E f \in rq.files : rq.resp.body.filename = StemOf(f) \o SUB_MP4
                    ELSE /\ rq.resp.body.filename \in rq.files
                         /\ \A i \in DOMAIN log : log[i] \notin SynthesisEvents

C6_Witness ==
    \E r \in Reqs :
       /\ req[r].resp.status = 200
       /\ req[r].generate_subs
       /\ req[r].files = {V_MP4, V_M4A}
       /\ req[r].resp.body.filename = <<"v">> \o SUB_MP4

\* C8: with generate_subs set, a failure of any synthesis step ends the
\* request with a server error carrying the cause, and no task_id.
C8_SynthesisFailure ==
    \A r \in Reqs :
       (\E ev \in {"transcribe_raise", "write_raise", "mux_raise"} : Has(req[r].log, ev)) =>
          /\ req[r].generate_subs
          /\ Finished(r)
          /\ req[r].resp.status \in 500..599
          /\ ~ReturnsTaskId(r)
          /\ "error" \in DOMAIN req[r].resp.body
          /\ ErrorOf(r) = [msg |-> "subtitle_failed", cause |-> req[r].err]

C8_Witness ==
    \E r \in Reqs :
       /\ Has(req[r].log, "mux_raise")
       /\ req[r].err = "e2"
       /\ req[r].resp.status = 500
       /\ Workspace(req[r].task_id) \o <<<<"v">> \o SUB_MP4>> \in fs.files

(***************************************************************************)
(* Concurrent requests.                                                    *)
(***************************************************************************)
Changed(f, g) ==
    ((f.files \ g.files) \cup (g.files \ f.files))
       \cup ((f.dirs \ g.dirs) \cup (g.dirs \ f.dirs))

\* C7: requests never share a task_id, and a step of one request creates
\* and deletes files and directories in its own workspace only.
C7_Isolation ==
    [][ /\ \A r, q \in Reqs :
             (r # q /\ req'[r].task_id # NoVal) => req'[r].task_id # req'[q].task_id
        /\ \A r \in Reqs :
             req'[r] # req[r] =>
                \A x \in Changed(fs, fs') : IsPrefix(Workspace(req'[r].task_id), x)
      ]_vars

C7_Witness ==
    \E r, q \in Reqs :
       /\ r # q
       /\ Finished(r) /\ Has(req[r].log, "rmtree")
       /\ WorkspaceGone(req[r].task_id)
       /\ Allocated(q)
       /\ Workspace(req[q].task_id) \o <<V_MP4>> \in fs.files
       /\ Workspace(req[q].task_id) \o <<GENERATED_SRT>> \in fs.files

(***************************************************************************)
(* The engine configuration.                                               *)
(***************************************************************************)
SubtitleKeys == {"writesubtitles", "writeautomaticsub", "subtitleslangs"}

WithoutOutput(o) == [k \in DOMAIN o \ {"outtmpl"} |-> o[k]]

Configured(r) == req[r].pc = "engine"

\* C5: the configuration is determined by (format_id, subtitle_lang,
\* embed_subs): "best" or "F+bestaudio/best/F"; mp4 forced exactly when a
\* format is chosen or subtitles are embedded; subtitle options exactly
\* when a language is given, for that language; equal inputs give equal
\* configurations up to the output path.
C5_Configuration ==
    /\ \A r \in Reqs :
          Configured(r) =>
             LET o == req[r].ydl_opts
                 F == req[r].format_id
                 L == req[r].subtitle_lang
             IN  /\ o.format = IF F = <<>> THEN BEST ELSE F \o PLUS_BESTAUDIO_BEST \o F
                 /\ ("merge_output_format" \in DOMAIN o)
                       <=> (F # <<>> \/ (L # <<>> /\ req[r].embed_subs))
                 /\ "merge_output_format" \in DOMAIN o => o.merge_output_format = "mp4"
                 /\ IF L # <<>>
                    THEN /\ SubtitleKeys \subseteq DOMAIN o
                         /\ o.writesubtitles /\ o.writeautomaticsub
                         /\ o.subtitleslangs = <<L>>
                    ELSE SubtitleKeys \cap DOMAIN o = {}
                 /\ Dirname(o.outtmpl) = DOWNLOAD_DIR \o <<"/">> \o req[r].task_id
    /\ \A r, q \in Reqs :
          (/\ Configured(r) /\ Configured(q)
           /\ req[r].format_id = req[q].format_id
           /\ req[r].subtitle_lang = req[q].subtitle_lang
           /\ req[r].embed_subs = req[q].embed_subs)
          => WithoutOutput(req[r].ydl_opts) = WithoutOutput(req[q].ydl_opts)

C5_Witness ==
    \E r, q \in Reqs :
       /\ r # q
       /\ Configured(r) /\ Configured(q)
       /\ req[r].format_id = <<>> /\ req[q].format_id = <<>>
       /\ req[r].subtitle_lang = LANG_EN /\ req[q].subtitle_lang = LANG_EN
       /\ req[r].embed_subs /\ req[q].embed_subs
       /\ req[r].generate_subs # req[q].generate_subs
       /\ req[r].ydl_opts.merge_output_format = "mp4"

(***************************************************************************)
(* Retrieval.                                                              *)
(***************************************************************************)
\* an identifier with a path separator or a traversal component
Unsafe(id) == \E i \in DOMAIN id : id[i] = "/" \/ id \in {DOT, DOTDOT}

\* C4: an identifier with a path separator or a traversal component is
\* answered not-found, and a file is served only from directly inside the
\* workspace of a task under the download root.
C4_SafeRetrieval ==
    served.kind = "served" =>
       /\ (Unsafe(served.task_id) \/ Unsafe(served.filename)) => served.status = 404
       /\ served.status = 200 =>
             /\ Len(served.file) = 3
             /\ served.file[1] = DOWNLOAD_DIR
             /\ served.file[2] \in TaskIds

(***************************************************************************)
(* _format_entry.  A Python value that may be None is a sequence: <<>> is  *)
(* None and <<v>> is v.  A raw record is a function from the keys it has.  *)
(***************************************************************************)
None == <<>>

\* dict.get(k) and dict.get(k, default)
Get(f, k) == IF k \in DOMAIN f THEN f[k] ELSE None
GetOr(f, k, default) == IF k \in DOMAIN f THEN f[k] ELSE <<default>>

\* truth of a string (or None) and of a number (or None)
TruthyStr(v) == v # None /\ v[1] # <<>>
TruthyNum(v) == v # None /\ v[1] # 0

\* a or b, for strings and for numbers
OrStr(a, b) == IF TruthyStr(a) THEN a ELSE b
OrNum(a, b) == IF TruthyNum(a) THEN a ELSE b

CODEC_NONE == <<"n", "o", "n", "e">>
\* the annotations of lines 71, 73 and 75 (video and audio, video only,
\* audio only), written in ASCII
BOTH_TAG == <<"(", "V", "+", "A", ")">>
VIDEO_TAG == <<"(", "V", ")">>
AUDIO_TAG == <<"(", "A", ")">>
UNKNOWN_EXT == <<"?">>

Digit == <<"0", "1", "2", "3", "4", "5", "6", "7", "8", "9">>

\* str(n) of a natural number
RECURSIVE IntToChars(_)
IntToChars(n) ==
    IF n < 10 THEN <<Digit[n + 1]>> ELSE IntToChars(n \div 10) \o <<Digit[(n % 10) + 1]>>

BytesPerMB == 1024 * 1024

\* the tenths in f"{filesize / 1024 / 1024:.1f}": the divisions are exact,
\* the formatting rounds to the nearest tenth, a tie to the even one
SizeTenths(filesize) ==
    LET q == (filesize * 10) \div BytesPerMB
        r == (filesize * 10) % BytesPerMB
    IN  IF 2 * r > BytesPerMB \/ (2 * r = BytesPerMB /\ q % 2 = 1) THEN q + 1 ELSE q

\* line 77
SizeTag(filesize) ==
    LET t == SizeTenths(filesize)
    IN  <<"[">> \o IntToChars(t \div 10) \o <<".">> \o <<Digit[(t % 10) + 1]>>
           \o <<"M", "B", "]">>

\* " ".join(parts)
RECURSIVE JoinSpace(_)
JoinSpace(parts) ==
    IF parts = <<>> THEN <<>>
    ELSE IF Len(parts) = 1 THEN parts[1]
    ELSE parts[1] \o <<" ">> \o JoinSpace(Tail(parts))

\* lines 60-61
HasCodec(f, k) == GetOr(f, k, CODEC_NONE) # <<CODEC_NONE>>

\* line 63
Resolution(f) ==
    LET r == OrStr(Get(f, "resolution"), Get(f, "format_note"))
    IN  IF TruthyStr(r) THEN r[1] ELSE <<>>

\* line 64
FileSize(f) == OrNum(Get(f, "filesize"), Get(f, "filesize_approx"))

\* faulty variant: the size is shown whenever it is not None
ShowSize_known(filesize) == filesize # None

\* line 76: if filesize
ShowSize(filesize) == TruthyNum(filesize)

\* lines 66-77: label_parts
LabelParts(f) ==
    LET has_video == HasCodec(f, "vcodec")
        has_audio == HasCodec(f, "acodec")
    IN  (IF Resolution(f) # <<>> THEN <<Resolution(f)>> ELSE <<>>)
        \o GetOr(f, "ext", UNKNOWN_EXT)
        \o (IF has_video /\ has_audio THEN <<BOTH_TAG>>
            ELSE IF has_video THEN <<VIDEO_TAG>>
            ELSE IF has_audio THEN <<AUDIO_TAG>>
            ELSE <<>>)
        \o (IF ShowSize(FileSize(f)) THEN <<SizeTag(FileSize(f)[1])>> ELSE <<>>)

\* lines 58-84: the body of the loop over the raw format records
FormatOption(f) ==
    [format_id |-> Get(f, "format_id"),
     label |-> JoinSpace(LabelParts(f)),
     has_video |-> HasCodec(f, "vcodec"),
     has_audio |-> HasCodec(f, "acodec")]

\* lines 87-92: the subtitle languages, authored ones first
Subtitles(info) ==
    [lang \in info.subtitles \cup info.automatic_captions |->
        [label |-> lang, auto |-> lang \notin info.subtitles]]

\* lines 55-101 (the fields copied unchanged are left out)
FormatEntry(info) ==
    [formats |-> [i \in DOMAIN info.formats |-> FormatOption(info.formats[i])],
     subtitles |-> Subtitles(info)]

(***************************************************************************)
(* The raw records the model formats.                                      *)
(***************************************************************************)
\* sizes are multiples of a quarter of a megabyte, from 0 to MaxQuarters
MaxQuarters == 3
QuarterMB == BytesPerMB \div 4
Sizes == {k * QuarterMB : k \in 0..MaxQuarters}

\* the functions from a subset of the keys, each key with one of its values
RECURSIVE Dicts(_, _)
Dicts(keys, values) ==
    IF keys = {} THEN {<<>>}
    ELSE LET k == CHOOSE x \in keys : TRUE
             rest == Dicts(keys \ {k}, values)
         IN  rest \cup {(k :> v) @@ d : v \in values[k], d \in rest}

RES_720 == <<"7", "2", "0", "p">>
NOTE_HD == <<"h", "d">>
EXT_MP4 == <<"m", "p", "4">>
VCODEC == <<"a", "v", "c", "1">>
ACODEC == <<"m", "p", "4", "a">>

RawValues ==
    [vcodec |-> {<<CODEC_NONE>>, <<VCODEC>>, None},
     acodec |-> {<<CODEC_NONE>>, <<ACODEC>>},
     ext |-> {<<EXT_MP4>>},
     resolution |-> {<<RES_720>>, None},
     format_note |-> {<<NOTE_HD>>, <<<<>>>>},
     filesize |-> {<<n>> : n \in Sizes} \cup {None},
     filesize_approx |-> {<<0>>, <<BytesPerMB + QuarterMB>>}]

RawFormats == Dicts(DOMAIN RawValues, RawValues)

Infos ==
    [formats : {<<f>> : f \in RawFormats},
     subtitles : SUBSET {LANG_EN},
     automatic_captions : SUBSET {LANG_EN, LANG_JA}]

InitLabel ==
    /\ fs = InitFs
    /\ req = [r \in Reqs |-> IdleReq]
    /\ served = Idle
    /\ srt = Idle
    /\ fmt \in [kind : {"info"}, info : Infos]

\* line 48 or 52: _format_entry(info)
FormatInfo ==
    /\ fmt.kind = "info"
    /\ fmt' = [kind |-> "entry", info |-> fmt.info, entry |-> FormatEntry(fmt.info)]
    /\ UNCHANGED <<fs, req, served, srt>>

SpecLabel == InitLabel /\ [][FormatInfo]_vars

(***************************************************************************)
(* Properties of the labels.                                               *)
(***************************************************************************)
\* the resolution, or else the quality note, when there is one
NotePart(f) ==
    IF TruthyStr(Get(f, "resolution")) THEN Get(f, "resolution")
    ELSE IF TruthyStr(Get(f, "format_note")) THEN Get(f, "format_note")
    ELSE <<>>

\* the presence annotation; a record without a codec entry has no such stream
PresencePart(f) ==
    LET v == "vcodec" \in DOMAIN f /\ f.vcodec # <<CODEC_NONE>>
        a == "acodec" \in DOMAIN f /\ f.acodec # <<CODEC_NONE>>
    IN  IF v /\ a THEN <<BOTH_TAG>>
        ELSE IF v THEN <<VIDEO_TAG>>
        ELSE IF a THEN <<AUDIO_TAG>>
        ELSE <<>>

\* the label with the four components in the fixed order; size is None or <<n>>
OrderedLabel(f, size) ==
    JoinSpace(NotePart(f) \o GetOr(f, "ext", UNKNOWN_EXT) \o PresencePart(f)
              \o (IF size = None THEN <<>> ELSE <<SizeTag(size[1])>>))

\* the size the record knows: filesize, or else filesize_approx
KnownSize(f) ==
    IF Get(f, "filesize") # None THEN Get(f, "filesize") ELSE Get(f, "filesize_approx")

\* the size the record knows and that is not 0
NonZeroSize(f) ==
    IF Get(f, "filesize") \notin {None, <<0>>} THEN Get(f, "filesize")
    ELSE IF Get(f, "filesize_approx") \notin {None, <<0>>} THEN Get(f, "filesize_approx")
    ELSE None

Formatted == fmt.kind = "entry"

\* C9 as stated: the label is note, extension, presence, size in this
\* order, with the size annotation whenever a size is known, 0 included.
C9_SizeWheneverKnown ==
    Formatted =>
       \A i \in DOMAIN fmt.info.formats :
          fmt.entry.formats[i].label
             = OrderedLabel(fmt.info.formats[i], KnownSize(fmt.info.formats[i]))

\* C9 as amended: the label is note, extension, presence, size in this
\* order, with the size annotation exactly when filesize, or else
\* filesize_approx, is known and not 0.
C9_SizeWhenNonZero ==
    Formatted =>
       \A i \in DOMAIN fmt.info.formats :
          fmt.entry.formats[i].label
             = OrderedLabel(fmt.info.formats[i], NonZeroSize(fmt.info.formats[i]))

C9_Witness ==
    /\ Formatted
    /\ \E i \in DOMAIN fmt.info.formats :
          /\ Get(fmt.info.formats[i], "filesize") = <<0>>
          /\ Get(fmt.info.formats[i], "filesize_approx") = <<0>>
          /\ fmt.entry.formats[i].label = <<"7", "2", "0", "p", " ", "m", "p", "4", " ", "(", "V", "+", "A", ")">>

(***************************************************************************)
(* _format_srt_time.  Its argument is a Python float, an IEEE 754 double.  *)
(* A non-negative double is a mantissa m, a sequence of at most 53 bits,   *)
(* most significant first and without leading zeros, and the number p of   *)
(* those bits that lie after the binary point: its value is m / 2^p.       *)
(***************************************************************************)
MantissaBits == 53

RECURSIVE ToBits(_)
ToBits(n) == IF n = 0 THEN <<>> ELSE ToBits(n \div 2) \o <<n % 2>>

RECURSIVE FromBits(_)
FromBits(b) ==
    IF b = <<>> THEN 0 ELSE 2 * FromBits(SubSeq(b, 1, Len(b) - 1)) + b[Len(b)]

\* b without its leading zeros
StripZeros(b) ==
    LET I == {i \in 1..Len(b) : b[i] = 1}
    IN  IF I = {} THEN <<>>
        ELSE SubSeq(b, CHOOSE i \in I : \A j \in I : i <= j, Len(b))

\* b + 1
Inc(b) ==
    LET Z == {i \in 1..Len(b) : b[i] = 0}
    IN  IF Z = {} THEN <<1>> \o [i \in 1..Len(b) |-> 0]
        ELSE LET z == CHOOSE i \in Z : \A j \in Z : j <= i
             IN  [i \in 1..Len(b) |-> IF i < z THEN b[i] ELSE IF i = z THEN 1 ELSE 0]

\* round to nearest, ties to even: the number bits / 2^p, followed by
\* something more when sticky holds, as a double
Round(bits, p, sticky) ==
    LET b == StripZeros(bits)
        cut == Len(b) - MantissaBits
    IN  IF cut <= 0 THEN [m |-> b, p |-> p]
        ELSE LET kept == SubSeq(b, 1, MantissaBits)
                 guard == b[MantissaBits + 1]
                 rest == sticky \/ \E i \in (MantissaBits + 2)..Len(b) : b[i] = 1
                 n == IF guard = 1 /\ (rest \/ kept[MantissaBits] = 1) THEN Inc(kept) ELSE kept
             IN  IF Len(n) > MantissaBits
                 THEN [m |-> SubSeq(n, 1, MantissaBits), p |-> p - cut - 1]
                 ELSE [m |-> n, p |-> p - cut]

\* the arithmetic below handles ChunkBits bits of a number in one step
ChunkBits == 8
ChunkBase == 2 ^ ChunkBits

\* the ChunkBits bits of n < ChunkBase, leading zeros included
Chunk(n) == [i \in 1..ChunkBits |-> (n \div (2 ^ (ChunkBits - i))) % 2]

\* the bits of q + r / d continued after the binary point until there are
\* more than MantissaBits of them: <<bits, remainder, fraction bits>>
RECURSIVE DivBits(_, _, _, _)
DivBits(q, r, p, d) ==
    IF Len(q) > MantissaBits THEN <<q, r, p>>
    ELSE DivBits(StripZeros(q \o Chunk((r * ChunkBase) \div d)),
                 (r * ChunkBase) % d, p + ChunkBits, d)

\* the double nearest to n / d
Quotient(n, d) ==
    LET t == DivBits(ToBits(n \div d), n % d, 0, d)
    IN  IF n = 0 THEN [m |-> <<>>, p |-> 0] ELSE Round(t[1], t[3], t[2] # 0)

\* the bits of b[1..i] * k + carry, for a small k, before the bits out
RECURSIVE MulCarry(_, _, _, _, _)
MulCarry(b, i, k, carry, out) ==
    IF i = 0 THEN ToBits(carry) \o out
    ELSE LET lo == IF i > ChunkBits THEN i - ChunkBits + 1 ELSE 1
             t == FromBits(SubSeq(b, lo, i)) * k + carry
             w == 2 ^ (i - lo + 1)
         IN  MulCarry(b, lo - 1, k, t \div w,
                      SubSeq(Chunk(t % w), ChunkBits - (i - lo), ChunkBits) \o out)

\* x * k in double arithmetic: the exact product, rounded
Times(x, k) == Round(MulCarry(x.m, Len(x.m), k, 0, <<>>), x.p, FALSE)

\* int(x): the bits before the binary point
IntPart(x) ==
    IF x.p >= Len(x.m) THEN 0 ELSE FromBits(SubSeq(x.m, 1, Len(x.m) - x.p))

\* x % 1, which is exact: the bits after the binary point
Mod1(x) ==
    IF x.p >= Len(x.m) THEN x
    ELSE [m |-> StripZeros(SubSeq(x.m, Len(x.m) - x.p + 1, Len(x.m))), p |-> x.p]

\* int(x // k) and int(x % k): the float floor division and remainder are
\* exact in the integer part for the offsets a transcript can hold
FloorDiv(x, k) == IntPart(x) \div k
ModInt(x, k) == IntPart(x) % k

\* f"{n:0wd}"
ZeroPad(n, w) ==
    LET c == IntToChars(n)
    IN  [i \in 1..(IF Len(c) < w THEN w - Len(c) ELSE 0) |-> "0"] \o c

\* line 216
Millis(seconds) == IntPart(Times(Mod1(seconds), 1000))

\* lines 211-217
FormatSrtTime(seconds) ==
    LET h == FloorDiv(seconds, 3600)
        m == ModInt(seconds, 3600) \div 60
        s == ModInt(seconds, 60)
        ms == Millis(seconds)
    IN  ZeroPad(h, 2) \o <<":">> \o ZeroPad(m, 2) \o <<":">> \o ZeroPad(s, 2)
           \o <<",">> \o ZeroPad(ms, 3)

(***************************************************************************)
(* The offsets the model renders: every whole number of milliseconds up    *)
(* to MaxMillis and the offsets of the documented examples, each as the    *)
(* double nearest to that many thousandths of a second.                    *)
(***************************************************************************)
MaxMillis == 1200

Offsets == 0..MaxMillis \cup {59999, 3725250, 359999999, 360000001}

InitSrt ==
    /\ fs = InitFs
    /\ req = [r \in Reqs |-> IdleReq]
    /\ served = Idle
    /\ fmt = Idle
    /\ \E T \in Offsets : srt = [kind |-> "offset", ms |-> T, seconds |-> Quotient(T, 1000)]

\* lines 189-190: _format_srt_time(seg["start"])
RenderTime ==
    /\ srt.kind = "offset"
    /\ srt' = [kind |-> "rendered", ms |-> srt.ms, seconds |-> srt.seconds,
               text |-> FormatSrtTime(srt.seconds)]
    /\ UNCHANGED <<fs, req, served, fmt>>

SpecSrt == InitSrt /\ [][RenderTime]_vars

(***************************************************************************)
(* Properties of the time rendering.                                       *)
(***************************************************************************)
RECURSIVE CharsToInt(_)
CharsToInt(c) ==
    IF c = <<>> THEN 0
    ELSE 10 * CharsToInt(SubSeq(c, 1, Len(c) - 1))
           + ((CHOOSE d \in 1..10 : Digit[d] = c[Len(c)]) - 1)

\* the milliseconds a rendering HH:MM:SS,mmm stands for
ParseSrtTime(text) ==
    LET hms == SplitOn(text, ":")
        sec == SplitOn(hms[3], ",")
    IN  ((CharsToInt(hms[1]) * 60 + CharsToInt(hms[2])) * 60 + CharsToInt(sec[1])) * 1000
           + CharsToInt(sec[2])

\* the rendering of T milliseconds with floor semantics
FloorRendering(T) ==
    ZeroPad(T \div 3600000, 2) \o <<":">> \o ZeroPad((T \div 60000) % 60, 2) \o <<":">>
       \o ZeroPad((T \div 1000) % 60, 2) \o <<",">> \o ZeroPad(T % 1000, 3)

\* C10: an offset of T milliseconds renders as HH:MM:SS,mmm with floor
\* semantics, parses back to exactly T, and the three documented examples
\* render as documented.
C10_FloorMillis ==
    srt.kind = "rendered" =>
       /\ srt.text = FloorRendering(srt.ms)
       /\ ParseSrtTime(srt.text) = srt.ms
       /\ srt.ms = 3725250 => srt.text = <<"0", "1", ":", "0", "2", ":", "0", "5", ",", "2", "5", "0">>
       /\ srt.ms = 0 => srt.text = <<"0", "0", ":", "0", "0", ":", "0", "0", ",", "0", "0", "0">>
       /\ srt.ms = 59999 => srt.text = <<"0", "0", ":", "0", "0", ":", "5", "9", ",", "9", "9", "9">>

====
